---- MODULE Spec2Model ----
(***************************************************************************)
(* The crawl / resume traversal engine of scripts/browse-crawl-v2.ts and   *)
(* its v3 variant: crawl(), extractPage(), savePageSnapshot(),             *)
(* getResumeState(), isCDPConnectionError() and the fresh / resume         *)
(* drivers.  The recursion of crawl() is an explicit stack of frames; the  *)
(* output directory is the set of page-<index>-<domain>_crawl.json files.  *)
(***************************************************************************)
EXTENDS Integers, Sequences, FiniteSets, TLC

(* ------------------------------ bounds --------------------------------- *)

\* largest config.maxDepth drawn by Init
MaxDepthCfg == 2
\* total number of links the classifier returns over one run
MaxLinks == 2
\* total number of exceptions injected over one run
MaxFaults == 1
\* number of resumed sessions after the fresh one
MaxResumes == 1
\* longest message, in words, of the errors handed to isCDPConnectionError alone
MaxWords == 3

(* ------------------------------ values --------------------------------- *)

\* defaultConfig.startUrl; a URL is a hostname and a path
StartUrl == [host |-> "h1", path |-> "/"]

Urls == {StartUrl, [host |-> "h2", path |-> "/a"], [host |-> "h2", path |-> "/b"]}

LinkTypes == {"content", "entry"}

\* an element of CrawlPageSchema.nextLinks (text left out: never read)
Links == [url : Urls, linkType : LinkTypes]

\* CrawlPageSchema.pageType: the enum the classifier's answer is validated against
PageTypes == {"content", "entry", "blocked", "other", "content-assumed"}

\* the page types drawn for the classifier's answers: ordinary ones and the sentinel,
\* which the schema accepts; no step of the engine reads a page type
ClassifierPageTypes == {"entry", "content-assumed"}

\* the link lists the classifier may answer with, n links left in the budget
LinkSeqs(n) == UNION {[1..k -> Links] : k \in 0..n}

\* error messages thrown by the browser / the file system, as word sequences
ErrorMessages == {<<"Target", "closed">>, <<"Navigation", "timeout">>}

\* mutant: the snippet is looked for at the start of the message only
IncludesAtStart(s, t) == Len(t) <= Len(s) /\ SubSeq(s, 1, Len(t)) = t

\* String.prototype.includes on word sequences
Includes(s, t) ==
    \E k \in 0..Len(s) : k + Len(t) <= Len(s) /\ SubSeq(s, k + 1, k + Len(t)) = t

\* the substring table of isCDPConnectionError
Snippets ==
    {<<"CDP", "transport", "closed">>, <<"socket-close">>, <<"Session", "closed">>,
     <<"Target", "closed">>, <<"Connection", "closed">>}

isCDPConnectionError(msg) == \E sn \in Snippets : Includes(msg, sn)

\* the words of the messages handed to isCDPConnectionError alone
Words == {"CDP", "transport", "closed", "socket", "socket-close", "Session", "session",
          "Target", "Connection", "timeout"}

\* the messages of at most n words
Texts(n) == UNION {[1..k -> Words] : k \in 0..n}

\* Error.prototype.name of the errors thrown
ErrorNames == {"Error", "TimeoutError"}

\* what a catch can receive (error: any): null, undefined, a thrown string, or an
\* Error with a name and a message (possibly empty)
ErrorValues ==
    {[tag |-> t, name |-> "", message |-> <<>>] : t \in {"null", "undefined"}}
        \cup [tag : {"string"}, name : {""}, message : Texts(MaxWords)]
        \cup [tag : {"Error"}, name : ErrorNames, message : Texts(MaxWords)]

\* the text that isCDPConnectionError searches: String(error?.message || error || "")
\* in v2, where an empty message gives way to String(error), the error's name;
\* String(error?.message ?? error ?? "") in v3, where an empty message stays
errorStr(v, error) ==
    IF error.tag \in {"null", "undefined"} THEN <<>>
    ELSE IF error.tag = "string" THEN error.message
    ELSE IF error.message # <<>> THEN error.message
    ELSE IF v = "v2" THEN <<error.name>> ELSE <<>>

\* sanitizeForFilename: the hostname of the URL (the path is lost)
sanitizeForFilename(url) == url.host

\* the two drivers: browse-crawl-v2.ts main and the v3 resumeCrawl / freshCrawl.
\* Their fresh crawls agree step for step and their resumes differ only in the catch
\* of the resume loop, so a resumed session is "either" until it first gets there
Variants == {"v2", "v3"}

NoPage == 0

(* ------------------------------ state ---------------------------------- *)

VARIABLES
    variant,    \* which driver runs the session: "v2", "v3" or "either"
    maxDepth,   \* config.maxDepth
    dirExists,  \* <outputDir>/pages exists
    files,      \* the *_crawl.json files of <outputDir>/pages
    summary,    \* index.json: <<>> or <<summary>>
    kind,       \* "none", "fresh" or "resume": the current / last session
    status,     \* "idle", "running", "done", "failed", "crashed", "cannotResume", "complete"
    mainpc,     \* position of the driver
    remaining,  \* resumeState.remainingLinks
    ri,         \* position of the resume loop in remaining
    rchild,     \* childPage of the resume loop
    stack,      \* the frames of the nested crawl() calls, innermost last
    visited,    \* visitedUrls
    pageIndex,  \* pageIndex.current
    exc,        \* the exception in flight (or the one the session ended with): <<>> or <<msg>>
    pages,      \* every page newPage() returned: the URL it was opened for, close attempts
    resumes,    \* resumed sessions started so far
    nfaults,    \* exceptions injected so far
    linksGiven, \* links the classifier returned so far
    faultLog,   \* history: the exceptions raised in this session, with place and depth
    sleeps,     \* history: calls of sleep(config.sleepMs) in this session
    calls,      \* history: the pages stagehand.extract() was called for in this session
    torn,       \* the names of the *_crawl.json files a process death left truncated
    listed      \* the URLs getResumeState put into visitedUrls, in the listing's order

vars == <<variant, maxDepth, dirExists, files, summary, kind, status, mainpc, remaining,
          ri, rchild, stack, visited, pageIndex, exc, pages, resumes, nfaults,
          linksGiven, faultLog, sleeps, calls, torn, listed>>

Top == stack[Len(stack)]

Pop(s) == SubSeq(s, 1, Len(s) - 1)

\* stack with the top frame changed to f
SetTop(f) == [stack EXCEPT ![Len(stack)] = f]

InCrawl(pc) == status = "running" /\ stack # <<>> /\ Top.pc = pc

Running == status = "running"

Init ==
    /\ variant = "either"
    /\ maxDepth \in 0..MaxDepthCfg
    /\ dirExists = FALSE
    /\ files = {}
    /\ summary = <<>>
    /\ kind = "none"
    /\ status = "idle"
    /\ mainpc = "none"
    /\ remaining = <<>>
    /\ ri = 0
    /\ rchild = NoPage
    /\ stack = <<>>
    /\ visited = {}
    /\ pageIndex = 0
    /\ exc = <<>>
    /\ pages = <<>>
    /\ resumes = 0
    /\ nfaults = 0
    /\ linksGiven = 0
    /\ faultLog = {}
    /\ sleeps = 0
    /\ calls = <<>>
    /\ torn = {}
    /\ listed = {}

(* --------------------------- pure helpers ------------------------------ *)

\* mutant: the visited set is never consulted
AlreadyVisitedNever(url, vis) == FALSE

\* crawl: if (visitedUrls.has(url)) return
AlreadyVisited(url, vis) == url \in vis

\* mutant: the depth test is off by one
DepthExhaustedLate(depth) == depth > maxDepth

\* the test depth >= config.maxDepth, of extractPage and of crawl
DepthExhausted(depth) == depth >= maxDepth

\* mutant: the link hint is ignored
SkipsClassifierDepthOnly(depth, hint) == DepthExhausted(depth)

\* extractPage: depth >= config.maxDepth || linkType === "content"
SkipsClassifier(depth, hint) == DepthExhausted(depth) \/ hint = "content"

\* crawl: if (depth >= config.maxDepth) return
AtMaxDepth(depth) == DepthExhausted(depth)

\* mutant: the catch swallows every error
CatchRethrowsNever(msg) == FALSE

\* mutant: the catch rethrows every error
CatchRethrowsAlways(msg) == TRUE

\* crawl, catch of the link loop: if (isCDPConnectionError(error)) throw error
CatchRethrows(msg) == isCDPConnectionError(msg)

\* the catch of the resume loop: v2 exits the process on a connection error and
\* goes on otherwise; v3 logs and rethrows every error
ResumeCatchAborts(v, msg) == v = "v3" \/ isCDPConnectionError(msg)

\* mutant: the visited set is not updated
MarkVisitedNot(vis, url) == vis

\* crawl: visitedUrls.add(url)
MarkVisited(vis, url) == vis \cup {url}

\* mutant: crawl() closes its page whoever opened it
ShouldClosePageAlways(parentPage) == TRUE

\* crawl: const shouldClosePage = !parentPage
ShouldClosePage(parentPage) == parentPage = NoPage

\* mutant: the links are taken from the last to the first
LinkOrderReversed(n, i) == n + 1 - i

\* for (const link of nextLinks): the position taken at the i-th iteration of a
\* list of n links
LinkOrder(n, i) == i

\* a frame of crawl(); from is the depth of the page whose link led here and path
\* the link positions that lead from the session's first call to this one (history)
Frame(url, depth, hint, parentPage, from, path) ==
    [url |-> url, depth |-> depth, hint |-> hint, parentPage |-> parentPage,
     page |-> parentPage, pc |-> "enter", snap |-> <<>>, i |-> 0,
     childPage |-> NoPage, from |-> from, path |-> path]

\* stagehand.context.newPage(): one more page, opened for url
NewPage(url) == Append(pages, [url |-> url, closes |-> 0, state |-> "open"])

\* what page.close() under withTimeout can do: resolve, reject, or stay pending
\* until the 5000 ms timer rejects
CloseOutcomes == {"ok", "reject", "timeout"}

\* withTimeout(page.close(), 5000, ...): one more close attempt on the page; a
\* rejected close leaves the tab open, a timed-out one leaves the close pending
ClosePage(ps, id, o) ==
    [ps EXCEPT ![id].closes = @ + 1,
               ![id].state = IF o = "ok" THEN "closed"
                             ELSE IF o = "reject" THEN "open" ELSE "closing"]

\* mutant: the error of a failed close leaves the finally block
AfterCloseThrows(e, o) == IF o = "ok" THEN e ELSE <<<<"Close", "failed">>>>

\* try { await withTimeout(page.close(), ...) } catch (closeError) { console.warn }:
\* the error in flight after the guarded close is the one in flight before it
AfterClose(e, o) == e

\* savePageSnapshot: writeFileSync to page-<index>-<domain>_crawl.json
WriteFile(fs, index, snap) ==
    {f \in fs : ~(f.index = index /\ f.domain = sanitizeForFilename(snap.url))}
        \cup {[index |-> index, domain |-> sanitizeForFilename(snap.url),
               snap |-> snap, sess |-> resumes]}

\* mutant: the page-0 filter matches no file name
IsPage0Typo(f) == FALSE

\* getResumeState: f.startsWith("page-0-") && f.endsWith("_crawl.json")
IsPage0(f) == f.index = 0

\* getResumeState: page0Files
Page0Files(fs) == {f \in fs : IsPage0(f)}

\* mutant: a snapshot that cannot be parsed is passed over
ReadFailsNever(ts) == FALSE

\* getResumeState, try / catch: readFileSync or JSON.parse throws for a truncated file
\* (every *_crawl.json file is read), and the catch returns null
ReadFails(ts) == ts # {}

\* Array.from(visitedUrls)[0]: visitedUrls keeps the order of insertion, so its first
\* element is the URL of the snapshot the directory listing put first; readdirSync
\* promises no order, so it is any of the URLs getResumeState read
FirstVisited(urls) == urls

\* mutant: the links of the root are returned unfiltered
ResumeStateNoFilter(fs, page0) ==
    [remainingLinks |-> page0.snap.nextLinks,
     visitedUrls |-> {f.snap.url : f \in fs},
     nextPageIndex |-> Cardinality(fs)]

\* mutant: the resumed session numbers its snapshots from 0 again
ResumeStateFromZero(fs, page0) ==
    LET visitedUrls == {f.snap.url : f \in fs}
        notVisited(link) == link.url \notin visitedUrls
    IN  [remainingLinks |-> SelectSeq(page0.snap.nextLinks, notVisited),
         visitedUrls |-> visitedUrls,
         nextPageIndex |-> 0]

\* mutant: only the root's URL is taken as visited
ResumeStateRootOnly(fs, page0) ==
    LET visitedUrls == {page0.snap.url}
        notVisited(link) == link.url \notin visitedUrls
    IN  [remainingLinks |-> SelectSeq(page0.snap.nextLinks, notVisited),
         visitedUrls |-> visitedUrls,
         nextPageIndex |-> Cardinality(fs)]

\* getResumeState, given the page-0 file the directory listing puts first
ResumeState(fs, page0) ==
    LET visitedUrls == {f.snap.url : f \in fs}
        notVisited(link) == link.url \notin visitedUrls
    IN  [remainingLinks |-> SelectSeq(page0.snap.nextLinks, notVisited),
         visitedUrls |-> visitedUrls,
         nextPageIndex |-> Cardinality(fs)]

\* the top frame ends (returns when e = <<>>, throws e otherwise): its caller goes on
ReturnToCaller(e) ==
    /\ exc' = e
    /\ IF Len(stack) > 1
         THEN /\ stack' = [Pop(stack) EXCEPT ![Len(stack) - 1].pc =
                               IF e = <<>> THEN "closeChild" ELSE "catch"]
              /\ mainpc' = mainpc
         ELSE /\ stack' = <<>>
              /\ mainpc' = IF kind = "fresh" THEN "freshEnd"
                           ELSE IF e = <<>> THEN "rclose" ELSE "rcatch"

Fault(place, depth, msg) ==
    [place |-> place, depth |-> depth, fatal |-> isCDPConnectionError(msg)]

\* a close that failed; its error is only logged, the code never inspects it
CloseFault(depth) == [place |-> "close", depth |-> depth, fatal |-> FALSE]

\* mutant: the loop does not sleep
ThrottleSkipped(n) == n

\* await sleep(config.sleepMs): one more throttle delay after n
Throttle(n) == n + 1

\* the page the classifier is called for: stagehand.extract() on the frame's page
Call(f) == [url |-> f.url, depth |-> f.depth, hint |-> f.hint]

\* the steps of extractPage that can throw for a page: page.goto always, and
\* stagehand.extract (or page.title after it) when the classifier is not skipped
FailureSites(depth, hint) ==
    IF SkipsClassifier(depth, hint) THEN {"goto"} ELSE {"goto", "extract"}

\* mutant: the loop's finally closes the page of the loop's own call
PageToCloseOwn(f) == f.page

\* crawl, finally of the link loop: childPage.close()
PageToClose(f) == f.childPage

\* mutant: the summary is written whether or not crawl() threw
WritesSummaryAlways(e) == TRUE

\* fresh crawl: saveCrawlSummary follows await crawl() inside the try
WritesSummary(e) == e = <<>>

\* mutant: the resume loop calls crawl() with the root's depth
ResumeDepthRoot(link) == 0

\* resume loop: crawl(stagehand, link.url, 1, ...)
ResumeDepth(link) == 1

\* mutant: an empty list of remaining links is not noticed
NothingRemainsNever(links) == FALSE

\* main, resume: resumeState.remainingLinks.length === 0
NothingRemains(links) == links = <<>>

(* ------------------------------ crawl() -------------------------------- *)

\* crawl, lines 285-289: the URL was visited already, return at once
CrawlSkip ==
    /\ InCrawl("enter")
    /\ AlreadyVisited(Top.url, visited)
    /\ ReturnToCaller(<<>>)
    /\ UNCHANGED <<variant, maxDepth, dirExists, files, summary, kind, status, remaining,
                   ri, rchild, visited, pageIndex, pages, resumes, nfaults, linksGiven,
                   faultLog,
                   sleeps, calls>>
    /\ UNCHANGED <<torn, listed>>

\* crawl, lines 291-295: mark visited, use the caller's page or open one
CrawlEnter ==
    /\ InCrawl("enter")
    /\ ~AlreadyVisited(Top.url, visited)
    /\ visited' = MarkVisited(visited, Top.url)
    /\ IF Top.parentPage # NoPage
         THEN /\ stack' = SetTop([Top EXCEPT !.pc = "extract"])
              /\ pages' = pages
         ELSE /\ pages' = NewPage(Top.url)
              /\ stack' = SetTop([Top EXCEPT !.pc = "extract", !.page = Len(pages) + 1])
    /\ UNCHANGED <<variant, maxDepth, dirExists, files, summary, kind, status, mainpc,
                   remaining, ri, rchild, pageIndex, exc, resumes, nfaults, linksGiven,
                   faultLog,
                   sleeps, calls>>
    /\ UNCHANGED <<torn, listed>>

\* crawl, line 294: newPage() for the root throws, outside the try
CrawlEnterFails ==
    /\ InCrawl("enter")
    /\ ~AlreadyVisited(Top.url, visited)
    /\ Top.parentPage = NoPage
    /\ nfaults < MaxFaults
    /\ \E msg \in ErrorMessages :
         /\ ReturnToCaller(<<msg>>)
         /\ faultLog' = faultLog \cup {Fault("newPage", Top.depth, msg)}
    /\ visited' = MarkVisited(visited, Top.url)
    /\ nfaults' = nfaults + 1
    /\ UNCHANGED <<variant, maxDepth, dirExists, files, summary, kind, status, remaining,
                   ri, rchild, pageIndex, pages, resumes, linksGiven,
                   sleeps, calls>>
    /\ UNCHANGED <<torn, listed>>

\* extractPage, lines 196-270, nothing thrown: the snapshot of the page
ExtractPage ==
    /\ InCrawl("extract")
    /\ IF SkipsClassifier(Top.depth, Top.hint)
         THEN /\ stack' = SetTop([Top EXCEPT !.pc = "save", !.snap =
                     <<[url |-> Top.url, depth |-> Top.depth,
                        pageType |-> "content-assumed", nextLinks |-> <<>>,
                        hint |-> Top.hint, classified |-> FALSE, from |-> Top.from,
                        path |-> Top.path]>>])
              /\ linksGiven' = linksGiven
              /\ calls' = calls
         ELSE \E pt \in ClassifierPageTypes, ls \in LinkSeqs(MaxLinks - linksGiven) :
              /\ stack' = SetTop([Top EXCEPT !.pc = "save", !.snap =
                     <<[url |-> Top.url, depth |-> Top.depth,
                        pageType |-> pt, nextLinks |-> ls,
                        hint |-> Top.hint, classified |-> TRUE, from |-> Top.from,
                        path |-> Top.path]>>])
              /\ linksGiven' = linksGiven + Len(ls)
              /\ calls' = Append(calls, Call(Top))
    /\ UNCHANGED <<variant, maxDepth, dirExists, files, summary, kind, status, mainpc,
                   remaining, ri, rchild, visited, pageIndex, exc, pages, resumes,
                   nfaults, faultLog, sleeps>>
    /\ UNCHANGED <<torn, listed>>

\* extractPage: page.goto, stagehand.extract or page.title throws
ExtractPageFails ==
    /\ InCrawl("extract")
    /\ nfaults < MaxFaults
    /\ \E msg \in ErrorMessages :
         /\ exc' = <<msg>>
         /\ faultLog' = faultLog \cup {Fault("visit", Top.depth, msg)}
    /\ \E site \in FailureSites(Top.depth, Top.hint) :
         calls' = IF site = "extract" THEN Append(calls, Call(Top)) ELSE calls
    /\ stack' = SetTop([Top EXCEPT !.pc = "finally"])
    /\ nfaults' = nfaults + 1
    /\ UNCHANGED <<variant, maxDepth, dirExists, files, summary, kind, status, mainpc,
                   remaining, ri, rchild, visited, pageIndex, pages, resumes,
                   linksGiven,
                   sleeps>>
    /\ UNCHANGED <<torn, listed>>

\* crawl, lines 300-306: savePageSnapshot(outputDir, pageIndex.current++, snapshot);
\* the argument pageIndex.current++ is evaluated before the call
SavePageSnapshot ==
    /\ InCrawl("save")
    /\ pageIndex' = pageIndex + 1
    /\ files' = WriteFile(files, pageIndex, Top.snap[1])
    /\ stack' = SetTop([Top EXCEPT !.pc = IF AtMaxDepth(Top.depth) THEN "finally" ELSE "loop",
                                   !.i = 1])
    /\ UNCHANGED <<variant, maxDepth, dirExists, summary, kind, status, mainpc, remaining,
                   ri, rchild, visited, exc, pages, resumes, nfaults, linksGiven,
                   faultLog,
                   sleeps, calls>>
    /\ UNCHANGED <<torn, listed>>

\* savePageSnapshot: writeFileSync throws, after pageIndex.current++ was evaluated
SavePageSnapshotFails ==
    /\ InCrawl("save")
    /\ nfaults < MaxFaults
    /\ pageIndex' = pageIndex + 1
    /\ \E msg \in ErrorMessages :
         /\ exc' = <<msg>>
         /\ faultLog' = faultLog \cup {Fault("save", Top.depth, msg)}
    /\ stack' = SetTop([Top EXCEPT !.pc = "finally"])
    /\ nfaults' = nfaults + 1
    /\ UNCHANGED <<variant, maxDepth, dirExists, files, summary, kind, status, mainpc,
                   remaining, ri, rchild, visited, pages, resumes, linksGiven,
                   sleeps, calls>>
    /\ UNCHANGED <<torn, listed>>

\* crawl, lines 313-316: the next link (sleep before it), or the end of the loop
LinkLoop ==
    /\ InCrawl("loop")
    /\ stack' = SetTop([Top EXCEPT !.pc =
                   IF Top.i <= Len(Top.snap[1].nextLinks) THEN "newPage" ELSE "finally"])
    /\ sleeps' = IF Top.i <= Len(Top.snap[1].nextLinks) THEN Throttle(sleeps) ELSE sleeps
    /\ UNCHANGED <<variant, maxDepth, dirExists, files, summary, kind, status, mainpc,
                   remaining, ri, rchild, visited, pageIndex, exc, pages, resumes,
                   nfaults, linksGiven, faultLog,
                   calls>>
    /\ UNCHANGED <<torn, listed>>

\* mutant: the child is given the depth of its parent
ChildDepthSame(depth) == depth

\* crawl, line 326: the recursive call's depth argument, depth + 1
ChildDepth(depth) == depth + 1

\* crawl, lines 319-333: open the child's tab and call crawl() for the link
OpenChild ==
    /\ InCrawl("newPage")
    /\ LET pos == LinkOrder(Len(Top.snap[1].nextLinks), Top.i)
           link == Top.snap[1].nextLinks[pos]
           id == Len(pages) + 1
       IN  /\ pages' = NewPage(link.url)
           /\ stack' = Append(SetTop([Top EXCEPT !.pc = "call", !.childPage = id]),
                              Frame(link.url, ChildDepth(Top.depth), link.linkType, id,
                                    Top.depth, Append(Top.path, pos)))
    /\ UNCHANGED <<variant, maxDepth, dirExists, files, summary, kind, status, mainpc,
                   remaining, ri, rchild, visited, pageIndex, exc, resumes, nfaults,
                   linksGiven, faultLog,
                   sleeps, calls>>
    /\ UNCHANGED <<torn, listed>>

\* mutant: newPage() is called inside the loop's try
AfterOpenFailsCaught == "catch"

\* crawl, line 319: newPage() is awaited before the try of lines 321-350: its error
\* passes the loop's catch and finally by and meets the finally of line 354
AfterOpenFails == "finally"

\* crawl, line 319: newPage() for the child throws, outside the inner try
OpenChildFails ==
    /\ InCrawl("newPage")
    /\ nfaults < MaxFaults
    /\ \E msg \in ErrorMessages :
         /\ exc' = <<msg>>
         /\ faultLog' = faultLog \cup {Fault("newPage", Top.depth + 1, msg)}
    /\ stack' = SetTop([Top EXCEPT !.pc = AfterOpenFails])
    /\ nfaults' = nfaults + 1
    /\ UNCHANGED <<variant, maxDepth, dirExists, files, summary, kind, status, mainpc,
                   remaining, ri, rchild, visited, pageIndex, pages, resumes,
                   linksGiven,
                   sleeps, calls>>
    /\ UNCHANGED <<torn, listed>>

\* crawl, lines 334-341: the child's crawl() threw
Catch ==
    /\ InCrawl("catch")
    /\ exc' = IF CatchRethrows(exc[1]) THEN exc ELSE <<>>
    /\ stack' = SetTop([Top EXCEPT !.pc = "closeChild"])
    /\ UNCHANGED <<variant, maxDepth, dirExists, files, summary, kind, status, mainpc,
                   remaining, ri, rchild, visited, pageIndex, pages, resumes, nfaults,
                   linksGiven, faultLog,
                   sleeps, calls>>
    /\ UNCHANGED <<torn, listed>>

\* the browser is lost: a fatal error is in flight
BrowserLost == exc # <<>> /\ isCDPConnectionError(exc[1])

\* a close attempt with outcome o: a failed one is one of the injected faults, unless
\* the browser is lost already (the close of one of its pages fails with it)
CloseAttempt(o, depth) ==
    /\ o # "ok" => (nfaults < MaxFaults \/ BrowserLost)
    /\ nfaults' = IF o = "ok" \/ BrowserLost THEN nfaults ELSE nfaults + 1
    /\ faultLog' = IF o = "ok" THEN faultLog ELSE faultLog \cup {CloseFault(depth)}

\* crawl, lines 342-350: close the child's tab, then the next link or the rethrow
CloseChild ==
    /\ InCrawl("closeChild")
    /\ \E o \in CloseOutcomes :
         /\ CloseAttempt(o, Top.depth + 1)
         /\ pages' = ClosePage(pages, PageToClose(Top), o)
         /\ exc' = AfterClose(exc, o)
         /\ stack' = SetTop(IF AfterClose(exc, o) = <<>>
                              THEN [Top EXCEPT !.pc = "loop", !.i = @ + 1]
                              ELSE [Top EXCEPT !.pc = "finally"])
    /\ UNCHANGED <<variant, maxDepth, dirExists, files, summary, kind, status, mainpc,
                   remaining, ri, rchild, visited, pageIndex, resumes, linksGiven,
                   sleeps, calls>>
    /\ UNCHANGED <<torn, listed>>

\* crawl, lines 354-364: close the page if this call opened it, then leave
Finally ==
    /\ InCrawl("finally")
    /\ IF ShouldClosePage(Top.parentPage)
         THEN \E o \in CloseOutcomes :
                /\ CloseAttempt(o, Top.depth)
                /\ pages' = ClosePage(pages, Top.page, o)
                /\ ReturnToCaller(AfterClose(exc, o))
         ELSE /\ ReturnToCaller(exc)
              /\ UNCHANGED <<pages, nfaults, faultLog>>
    /\ UNCHANGED <<variant, maxDepth, dirExists, files, summary, kind, status, remaining,
                   ri, rchild, visited, pageIndex, resumes, linksGiven,
                   sleeps, calls>>
    /\ UNCHANGED <<torn, listed>>

(* ------------------------------ drivers -------------------------------- *)

\* main, fresh crawl, lines 491-509: a new output directory, crawl(startUrl, 0)
StartFresh ==
    /\ status = "idle"
    /\ kind' = "fresh"
    /\ status' = "running"
    /\ mainpc' = "crawl"
    /\ dirExists' = TRUE
    /\ pageIndex' = 0
    /\ visited' = {}
    /\ stack' = <<Frame(StartUrl, 0, "none", NoPage, 0, <<>>)>>
    /\ sleeps' = 0
    /\ calls' = <<>>
    /\ UNCHANGED <<variant, maxDepth, files, summary, remaining, ri, rchild, exc, pages,
                   resumes, nfaults, linksGiven, faultLog>>
    /\ listed' = {}
    /\ UNCHANGED torn

\* main, fresh crawl, lines 511-534: the summary after crawl() returned, no summary
\* after it threw
FreshEnd ==
    /\ Running /\ mainpc = "freshEnd"
    /\ IF WritesSummary(exc)
         THEN /\ summary' = <<[startUrl |-> StartUrl, totalPages |-> pageIndex,
                              resumed |-> FALSE]>>
              /\ status' = "done"
         ELSE /\ summary' = summary
              /\ status' = "failed"
    /\ mainpc' = "none"
    /\ UNCHANGED <<variant, maxDepth, dirExists, files, kind, remaining, ri, rchild, stack,
                   visited, pageIndex, exc, pages, resumes, nfaults, linksGiven,
                   faultLog,
                   sleeps, calls>>
    /\ UNCHANGED <<torn, listed>>

\* main, resume, lines 395-402: getResumeState finds no directory or no page-0 file,
\* or fails to read a file
ResumeNull ==
    /\ ~Running /\ resumes < MaxResumes
    /\ ~dirExists \/ Page0Files(files) = {} \/ ReadFails(torn)
    /\ variant' = "either"
    /\ kind' = "resume"
    /\ status' = "cannotResume"
    /\ resumes' = resumes + 1
    /\ exc' = <<>>
    /\ faultLog' = {}
    /\ pages' = <<>>
    /\ visited' = {}
    /\ pageIndex' = 0
    /\ sleeps' = 0
    /\ calls' = <<>>
    /\ UNCHANGED <<maxDepth, dirExists, files, summary, mainpc, remaining, ri, rchild,
                   stack, nfaults, linksGiven>>
    /\ listed' = {}
    /\ UNCHANGED torn

\* main, resume, lines 397-416: the resume state; nothing to do when no link remains
StartResume ==
    /\ ~Running /\ resumes < MaxResumes
    /\ dirExists /\ ~ReadFails(torn)
    /\ \E page0 \in Page0Files(files) :
         LET rs == ResumeState(files, page0)
         IN  /\ remaining' = rs.remainingLinks
             /\ visited' = rs.visitedUrls
             /\ pageIndex' = rs.nextPageIndex
             /\ status' = IF NothingRemains(rs.remainingLinks) THEN "complete" ELSE "running"
             /\ mainpc' = IF NothingRemains(rs.remainingLinks) THEN "none" ELSE "rloop"
             /\ listed' = rs.visitedUrls
    /\ variant' = "either"
    /\ kind' = "resume"
    /\ resumes' = resumes + 1
    /\ ri' = 1
    /\ rchild' = NoPage
    /\ exc' = <<>>
    /\ faultLog' = {}
    /\ pages' = <<>>
    /\ sleeps' = 0
    /\ calls' = <<>>
    /\ UNCHANGED <<maxDepth, dirExists, files, summary, stack, nfaults, linksGiven,
                   torn>>

\* main, resume, lines 421-423 and 456-467: the next remaining link (sleep before
\* it), or the summary after the last one; the startUrl of line 412 is first read
\* here, and the listing order that decides it is drawn here
ResumeLoop ==
    /\ Running /\ mainpc = "rloop"
    /\ IF ri <= Len(remaining)
         THEN /\ mainpc' = "rnewPage"
              /\ sleeps' = Throttle(sleeps)
              /\ UNCHANGED <<summary, status>>
         ELSE /\ mainpc' = "none"
              /\ sleeps' = sleeps
              /\ \E startUrl \in FirstVisited(listed) :
                   summary' = <<[startUrl |-> startUrl, totalPages |-> pageIndex,
                                 resumed |-> TRUE]>>
              /\ status' = "done"
    /\ UNCHANGED <<variant, maxDepth, dirExists, files, kind, remaining, ri, rchild, stack,
                   visited, pageIndex, exc, pages, resumes, nfaults, linksGiven,
                   faultLog,
                   calls>>
    /\ UNCHANGED <<torn, listed>>

\* main, resume, lines 425-438: open a tab and call crawl() for the link at depth 1
ResumeOpenChild ==
    /\ Running /\ mainpc = "rnewPage"
    /\ LET pos == LinkOrder(Len(remaining), ri)
           link == remaining[pos]
           id == Len(pages) + 1
       IN  /\ pages' = NewPage(link.url)
           /\ rchild' = id
           /\ stack' = <<Frame(link.url, ResumeDepth(link), link.linkType, id, 0, <<pos>>)>>
    /\ mainpc' = "rcall"
    /\ UNCHANGED <<variant, maxDepth, dirExists, files, summary, kind, status, remaining,
                   ri, visited, pageIndex, exc, resumes, nfaults, linksGiven, faultLog,
                   sleeps, calls>>
    /\ UNCHANGED <<torn, listed>>

\* main, resume, line 425: newPage() throws inside the outer try: the resume fails
ResumeOpenChildFails ==
    /\ Running /\ mainpc = "rnewPage"
    /\ nfaults < MaxFaults
    /\ \E msg \in ErrorMessages :
         /\ exc' = <<msg>>
         /\ faultLog' = faultLog \cup {Fault("newPage", 1, msg)}
    /\ status' = "failed"
    /\ mainpc' = "none"
    /\ nfaults' = nfaults + 1
    /\ UNCHANGED <<variant, maxDepth, dirExists, files, summary, kind, remaining, ri,
                   rchild, stack, visited, pageIndex, pages, resumes, linksGiven,
                   sleeps, calls>>
    /\ UNCHANGED <<torn, listed>>

\* main, resume, lines 439-446 (v2) and resumeCrawl, lines 304-312 (v3)
ResumeCatch ==
    /\ Running /\ mainpc = "rcatch"
    /\ \E v \in (IF variant = "either" THEN Variants ELSE {variant}) :
         /\ variant' = v
         /\ IF ResumeCatchAborts(v, exc[1])
              THEN IF v = "v2"
                     THEN status' = "failed" /\ mainpc' = "none" /\ exc' = exc
                     ELSE status' = status /\ mainpc' = "rclose" /\ exc' = exc
              ELSE status' = status /\ mainpc' = "rclose" /\ exc' = <<>>
    /\ UNCHANGED <<maxDepth, dirExists, files, summary, kind, remaining, ri,
                   rchild, stack, visited, pageIndex, pages, resumes, nfaults,
                   linksGiven, faultLog,
                   sleeps, calls>>
    /\ UNCHANGED <<torn, listed>>

\* main, resume, lines 447-453: close the child's tab, then the next link or the failure
ResumeCloseChild ==
    /\ Running /\ mainpc = "rclose"
    /\ \E o \in CloseOutcomes :
         /\ CloseAttempt(o, 1)
         /\ pages' = ClosePage(pages, rchild, o)
         /\ exc' = AfterClose(exc, o)
         /\ IF AfterClose(exc, o) = <<>>
              THEN ri' = ri + 1 /\ mainpc' = "rloop" /\ status' = status
              ELSE ri' = ri /\ mainpc' = "none" /\ status' = "failed"
    /\ UNCHANGED <<variant, maxDepth, dirExists, files, summary, kind, remaining, rchild,
                   stack, visited, pageIndex, resumes, linksGiven,
                   sleeps, calls>>
    /\ UNCHANGED <<torn, listed>>

\* the name of the file savePageSnapshot writes for the top frame
FileName(index, snap) == [index |-> index, domain |-> sanitizeForFilename(snap.url)]

\* the process dies at an arbitrary point: the memory is lost, the files stay; a
\* death inside writeFileSync leaves the file it was writing truncated
Crash ==
    /\ Running
    /\ status' = "crashed"
    /\ variant' = "either"
    /\ mainpc' = "none"
    /\ stack' = <<>>
    /\ exc' = <<>>
    /\ remaining' = <<>>
    /\ ri' = 0
    /\ rchild' = NoPage
    /\ visited' = {}
    /\ pageIndex' = 0
    /\ pages' = <<>>
    /\ faultLog' = {}
    /\ sleeps' = 0
    /\ calls' = <<>>
    /\ listed' = {}
    /\ \/ torn' = torn /\ files' = files
       \/ /\ InCrawl("save")
          /\ torn' = torn \cup {FileName(pageIndex, Top.snap[1])}
          /\ files' = {f \in files :
                          FileName(f.index, f.snap) # FileName(pageIndex, Top.snap[1])}
    /\ UNCHANGED <<maxDepth, dirExists, summary, kind, resumes, nfaults,
                   linksGiven>>

\* a catch hands the error it received to isCDPConnectionError; the verdict is logged
ClassifyError ==
    /\ status = "idle" /\ exc # <<>> /\ faultLog = {}
    /\ faultLog' = {[place |-> "catch", depth |-> 0,
                     fatal |-> isCDPConnectionError(errorStr(variant, exc[1]))]}
    /\ UNCHANGED <<variant, maxDepth, dirExists, files, summary, kind, status, mainpc,
                   remaining, ri, rchild, stack, visited, pageIndex, exc, pages, resumes,
                   nfaults, linksGiven, sleeps, calls>>
    /\ UNCHANGED <<torn, listed>>

Next ==
    \/ CrawlSkip \/ CrawlEnter \/ CrawlEnterFails
    \/ ExtractPage \/ ExtractPageFails
    \/ SavePageSnapshot \/ SavePageSnapshotFails
    \/ LinkLoop \/ OpenChild \/ OpenChildFails
    \/ Catch \/ CloseChild \/ Finally
    \/ StartFresh \/ FreshEnd
    \/ ResumeNull \/ StartResume \/ ResumeLoop
    \/ ResumeOpenChild \/ ResumeOpenChildFails
    \/ ResumeCatch \/ ResumeCloseChild
    \/ Crash

Spec == Init /\ [][Next]_vars

\* isCDPConnectionError alone: any value is thrown, in either variant
ErrInit ==
    /\ variant \in Variants
    /\ exc \in {<<e>> : e \in ErrorValues}
    /\ maxDepth = 0
    /\ dirExists = FALSE
    /\ files = {}
    /\ summary = <<>>
    /\ kind = "none"
    /\ status = "idle"
    /\ mainpc = "none"
    /\ remaining = <<>>
    /\ ri = 0
    /\ rchild = NoPage
    /\ stack = <<>>
    /\ visited = {}
    /\ pageIndex = 0
    /\ pages = <<>>
    /\ resumes = 0
    /\ nfaults = 0
    /\ linksGiven = 0
    /\ faultLog = {}
    /\ sleeps = 0
    /\ calls = <<>>
    /\ torn = {}
    /\ listed = {}

ErrNext == ClassifyError

ErrSpec == ErrInit /\ [][ErrNext]_vars

\* the steps of a session under way; each is the continuation of an awaited call
\* (navigation, classifier, capture, newPage, close under its timer, sleep) or
\* synchronous code
Step ==
    \/ CrawlSkip \/ CrawlEnter \/ CrawlEnterFails
    \/ ExtractPage \/ ExtractPageFails
    \/ SavePageSnapshot \/ SavePageSnapshotFails
    \/ LinkLoop \/ OpenChild \/ OpenChildFails
    \/ Catch \/ CloseChild \/ Finally
    \/ FreshEnd \/ ResumeLoop
    \/ ResumeOpenChild \/ ResumeOpenChildFails
    \/ ResumeCatch \/ ResumeCloseChild

\* every awaited call returns or throws: a session under way takes its next step
LiveSpec == Init /\ [][Next]_vars /\ WF_vars(Step)

\* the error this step raises, if it raises one, is a fatal one
RaisesFatal == (exc' # exc /\ exc' # <<>>) => isCDPConnectionError(exc'[1])

\* the runs in which every error raised by the browser or the file system is a fatal
\* one (a close may still fail)
FatalOnlyNext ==
    \/ CrawlSkip \/ CrawlEnter \/ (CrawlEnterFails /\ RaisesFatal)
    \/ ExtractPage \/ (ExtractPageFails /\ RaisesFatal)
    \/ SavePageSnapshot \/ (SavePageSnapshotFails /\ RaisesFatal)
    \/ LinkLoop \/ OpenChild \/ (OpenChildFails /\ RaisesFatal)
    \/ Catch \/ CloseChild \/ Finally
    \/ StartFresh \/ FreshEnd
    \/ ResumeNull \/ StartResume \/ ResumeLoop
    \/ ResumeOpenChild \/ (ResumeOpenChildFails /\ RaisesFatal)
    \/ ResumeCatch \/ ResumeCloseChild
    \/ Crash

FatalOnlySpec == Init /\ [][FatalOnlyNext]_vars

(* ------------------------------ claims --------------------------------- *)

SnapshotUrls == {f.snap.url : f \in files}

FileIndices == {f.index : f \in files}

SessionOver == status \in {"done", "failed"}

\* every exception of the session was a non-fatal one raised by the visit of a child
\* (navigation, classification, capture or save at depth >= 1)
OnlyNonFatalChildFaults ==
    /\ faultLog # {}
    /\ \A x \in faultLog : x.place \in {"visit", "save"} /\ x.depth >= 1 /\ ~x.fatal

\* C1: over a fresh crawl and the resumed sessions that continue it after an abort at
\* any point, no URL appears in more than one persisted snapshot
C1_AtMostOnce == \A f, g \in files : f.snap.url = g.snap.url => f = g

\* C1 witness: a resumed session has written a snapshot next to the fresh crawl's and
\* has skipped a second link to the same URL
C1_Witness ==
    /\ kind = "resume" /\ status = "done"
    /\ Len(remaining) = 2 /\ remaining[1].url = remaining[2].url
    /\ \E f, g \in files : f.sess = 0 /\ g.sess = 1 /\ g.snap.url = remaining[1].url

\* C2: in a fresh crawl the indices of the snapshots written so far are exactly
\* 0..n-1, also after non-fatal child failures
C2_IndicesContiguous ==
    kind = "fresh" => FileIndices = 0..(Cardinality(files) - 1)

\* C3: a resumed session starts at nextPageIndex = number of persisted snapshots, and
\* the indices it writes continue the sequence: no two snapshots share an index and
\* the indices have no gap
C3_ResumeContinuesIndices ==
    (kind = "resume" /\ status \in {"running", "done", "failed"}) =>
        /\ \A f, g \in files : f.index = g.index => f = g
        /\ FileIndices = 0..(Cardinality(files) - 1)

\* C4: pageIndex is incremented only after the snapshot has been persisted: a step of
\* crawl() in which persisting the snapshot fails leaves pageIndex unchanged
C4_PersistThenIncrement ==
    [][(InCrawl("save") /\ exc = <<>> /\ exc' # <<>>) => pageIndex' = pageIndex]_vars

\* C5: while a fatal error of a child's crawl is in flight, every enclosing crawl()
\* rethrows it: it stays the error in flight until the top-level call rejects with it,
\* and no further link is visited (no call, no new visited URL, no snapshot)
C5_FatalPropagates ==
    [][(Running /\ exc # <<>> /\ isCDPConnectionError(exc[1])) =>
          \/ status' = "crashed"
          \/ /\ exc' = exc
             /\ status' \in {"running", "failed"}
             /\ Len(stack') <= Len(stack)
             /\ files' = files /\ visited' = visited /\ pageIndex' = pageIndex]_vars

\* C5 witness: a fresh crawl ended rejected with the fatal error of a child's visit,
\* and a link of a persisted page was never visited
C5_Witness ==
    /\ kind = "fresh" /\ status = "failed"
    /\ exc # <<>> /\ isCDPConnectionError(exc[1])
    /\ \E x \in faultLog : x.place = "visit" /\ x.depth >= 1 /\ x.fatal
    /\ \E f \in files : \E k \in 1..Len(f.snap.nextLinks) :
           f.snap.nextLinks[k].url \notin visited

\* C6: a fresh crawl whose only exceptions were non-fatal errors of child visits ends
\* without throwing, every link of every persisted page was passed to crawl(), and
\* every visited URL but the failed ones has its snapshot
C6_NonFatalContained ==
    (kind = "fresh" /\ SessionOver /\ OnlyNonFatalChildFaults) =>
        /\ status = "done"
        /\ \A f \in files : \A k \in 1..Len(f.snap.nextLinks) :
               f.snap.nextLinks[k].url \in visited
        /\ Cardinality(visited \ SnapshotUrls) <= nfaults

\* C6 witness: a child's visit failed with a non-fatal error, and a later sibling of
\* it has its snapshot
C6_Witness ==
    /\ kind = "fresh" /\ status = "done" /\ OnlyNonFatalChildFaults
    /\ \E f, g \in files : \E j, k \in 1..Len(f.snap.nextLinks) :
           /\ j < k
           /\ f.snap.nextLinks[j].url \notin SnapshotUrls
           /\ g.snap.url = f.snap.nextLinks[k].url
           /\ g.index > f.index

\* C7: a resumed session whose only exceptions were non-fatal errors of the visits of
\* remaining links goes on: it ends without failing and every remaining link was
\* passed to crawl()
C7_ResumeNonFatalContinues ==
    (kind = "resume" /\ SessionOver /\ OnlyNonFatalChildFaults) =>
        /\ status = "done"
        /\ \A k \in 1..Len(remaining) : remaining[k].url \in visited

\* C8: every persisted snapshot has depth <= maxDepth, and the link that led to it
\* was found on a page one level up, of depth < maxDepth; in fresh and resumed sessions
C8_DepthBound ==
    \A f \in files :
        /\ f.snap.depth <= maxDepth
        /\ f.snap.depth > 0 => (f.snap.from < maxDepth /\ f.snap.depth = f.snap.from + 1)

\* C8 witness: a resumed session re-entered at depth 1 and went down to maxDepth = 2
C8_Witness ==
    /\ maxDepth = 2
    /\ \E f, g \in files :
           /\ f.sess = 1 /\ f.snap.depth = 1
           /\ g.sess = 1 /\ g.snap.depth = maxDepth

\* C9: every snapshot at depth maxDepth or reached through a content-hinted link has
\* pageType content-assumed and no links, and the classifier was not called for it
C9_SkipEquivalence ==
    \A f \in files :
        (f.snap.depth = maxDepth \/ f.snap.hint = "content") =>
            /\ f.snap.pageType = "content-assumed"
            /\ f.snap.nextLinks = <<>>
            /\ ~f.snap.classified

\* C9 witness: a snapshot above maxDepth reached through a content-hinted link, next
\* to a page the classifier was called for
C9_Witness ==
    \E f, g \in files :
        /\ f.snap.hint = "content" /\ f.snap.depth < maxDepth /\ f.snap.depth > 0
        /\ g.snap.classified /\ g.snap.nextLinks # <<>>

\* C10: a snapshot has pageType content-assumed only if the classifier was skipped
\* for its page: no answer of the classifier is persisted with the sentinel
C10_SentinelOnlyByEngine ==
    \A f \in files : f.snap.pageType = "content-assumed" => ~f.snap.classified

\* C11: the visited-set check runs before any page is acquired: no tab is ever opened
\* for a URL that is already in the visited set
C11_NoTabForVisitedUrl ==
    [][Len(pages') > Len(pages) => pages'[Len(pages')].url \notin visited]_vars

\* C12: a call of crawl() closes its page exactly when it opened it, never a page its
\* caller supplied, and no page has close attempted more than once
C12_CloseOnlyOwnPageOnce ==
    /\ [](\A k \in 1..Len(pages) : pages[k].closes <= 1)
    /\ [][(InCrawl("finally") /\ status' = "running") =>
             /\ Top.parentPage # NoPage => pages' = pages
             /\ Top.parentPage = NoPage =>
                    /\ pages'[Top.page].closes = pages[Top.page].closes + 1
                    /\ \A k \in 1..Len(pages) : k # Top.page => pages'[k] = pages[k]]_vars

\* C12 witness: a fresh crawl is over, the root's page and two children's pages have
\* each had one close attempt
C12_Witness ==
    /\ kind = "fresh" /\ status = "done"
    /\ Len(pages) >= 3
    /\ \A k \in 1..Len(pages) : pages[k].closes = 1

\* every exception of the session was a page close that rejected or timed out
OnlyCloseFaults ==
    /\ faultLog # {}
    /\ \A x \in faultLog : x.place = "close"

\* C13: a session whose only failures were page closes that rejected or timed out
\* ends without an error, every link of every persisted page (and every remaining
\* link of a resumed session) was visited, and every URL the session visited has its
\* snapshot
C13_CloseFailureContained ==
    (SessionOver /\ OnlyCloseFaults) =>
        /\ status = "done"
        /\ exc = <<>>
        /\ kind = "fresh" => \A f \in files : \A k \in 1..Len(f.snap.nextLinks) :
                                 f.snap.nextLinks[k].url \in visited
        /\ \A k \in 1..Len(remaining) : remaining[k].url \in visited \cap SnapshotUrls
        /\ kind = "fresh" => visited \subseteq SnapshotUrls

\* C13 witness: the close of a child's tab failed, and the next sibling was visited
\* and has its snapshot
C13_Witness ==
    /\ kind = "fresh" /\ status = "done" /\ OnlyCloseFaults
    /\ \E k \in 2..(Len(pages) - 1) :
           /\ pages[k].closes = 1 /\ pages[k].state # "closed"
           /\ \E f \in files : f.snap.url = pages[k + 1].url /\ f.index = 2

\* p comes before q in the depth-first pre-order of the link lists: p is a proper
\* prefix of q, or p takes an earlier link where the two part
PreOrderBefore(p, q) ==
    \/ Len(p) < Len(q) /\ SubSeq(q, 1, Len(p)) = p
    \/ \E k \in 1..Len(p) :
           /\ k <= Len(q)
           /\ SubSeq(p, 1, k - 1) = SubSeq(q, 1, k - 1)
           /\ p[k] < q[k]

C15_VisitedOnlyGrows ==
    /\ [](\A k \in 1..Len(stack) : stack[k].pc # "enter" => stack[k].url \in visited)
    /\ [][(Running /\ status' = "running") =>
             /\ visited \subseteq visited'
             /\ visited' # visited =>
                    /\ InCrawl("enter")
                    /\ Top.url \notin visited
                    /\ visited' = visited \cup {Top.url}]_vars

\* C15 witness: a child's crawl() has inserted its URL next to the root's and is
\* about to navigate
C15_Witness ==
    /\ InCrawl("extract")
    /\ Len(stack) >= 2
    /\ Cardinality(visited) >= 2
    /\ Top.url \in visited

\* C16: crawl() of a URL already in the visited set returns at once without error and
\* changes nothing: visited set, pageIndex, snapshots, summary and pages stay as they
\* are, and the classifier is not called
C16_SkipIsNoOp ==
    [][(InCrawl("enter") /\ Top.url \in visited /\ status' = "running") =>
          /\ exc' = <<>>
          /\ Len(stack') = Len(stack) - 1
          /\ visited' = visited /\ pageIndex' = pageIndex
          /\ files' = files /\ summary' = summary
          /\ pages' = pages
          /\ linksGiven' = linksGiven /\ nfaults' = nfaults]_vars

\* C16 witness: crawl() was called for a link that leads back to the page it is on,
\* and has returned
C16_Witness ==
    /\ InCrawl("closeChild") /\ exc = <<>>
    /\ Top.snap[1].nextLinks[Top.i].url = Top.url
    /\ pages[Top.childPage].closes = 0
    /\ pages[Top.childPage].url \in visited

\* the resume state was just computed from the directory as it is now
AtResumeStart ==
    /\ kind = "resume"
    /\ \/ status = "complete"
       \/ status = "running" /\ mainpc = "rloop" /\ ri = 1

\* the positions of the links that lead to no persisted URL
KeptPositions(links) == {k \in 1..Len(links) : links[k].url \notin SnapshotUrls}

\* remainingLinks is the root's list without the links to persisted URLs, in the
\* root's order
RemainingIsFilter ==
    \A p \in {f \in files : f.index = 0} :
        LET links == p.snap.nextLinks
            kept == KeptPositions(links)
        IN  /\ Len(remaining) = Cardinality(kept)
            /\ \A m \in 1..Len(remaining) : \E k \in kept :
                   /\ Cardinality({j \in kept : j <= k}) = m
                   /\ remaining[m] = links[k]

\* C17: getResumeState returns the root's links without those whose URL is visited,
\* in the root's order, and no URL occurs twice in the result
C17_RemainingFilteredNoDuplicates ==
    AtResumeStart =>
        /\ RemainingIsFilter
        /\ \A a, b \in 1..Len(remaining) : remaining[a].url = remaining[b].url => a = b

NullResumeCase == ~dirExists \/ {f \in files : f.index = 0} = {} \/ torn # {}

\* C19: a resume reports that it cannot resume exactly when the directory does not
\* exist or holds no page-0 snapshot; it then visits no page and writes no snapshot
\* and no summary, and nothing follows but another invocation
C19_NullMeansCannotResume ==
    /\ [][resumes' = resumes + 1 =>
             /\ NullResumeCase <=> status' = "cannotResume"
             /\ status' = "cannotResume" =>
                    /\ files' = files /\ summary' = summary /\ dirExists' = dirExists
                    /\ pages' = <<>> /\ stack' = <<>> /\ visited' = {}]_vars
    /\ [][status = "cannotResume" => resumes' = resumes + 1]_vars

\* C19 witness: a resume of a directory that the crashed crawl had created but not
\* yet written to
C19_Witness ==
    /\ status = "cannotResume"
    /\ dirExists /\ files = {}
    /\ pages = <<>> /\ summary = <<>>

\* C20: a resume that finds a root snapshot all of whose links are visited is
\* complete at once: no page, no snapshot, no summary, the directory unchanged, and
\* nothing follows (no sleep, no call) but another invocation
C20_NothingRemainingNoAction ==
    /\ [][(/\ resumes' = resumes + 1
           /\ ~NullResumeCase
           /\ \A p \in {f \in files : f.index = 0} :
                  \A k \in 1..Len(p.snap.nextLinks) :
                      p.snap.nextLinks[k].url \in SnapshotUrls) =>
             /\ status' = "complete"
             /\ files' = files /\ summary' = summary /\ dirExists' = dirExists
             /\ pages' = <<>> /\ stack' = <<>>]_vars
    /\ [][status = "complete" => resumes' = resumes + 1]_vars

\* C20 witness: a finished crawl of several pages is resumed; its summary is the one
\* the fresh crawl wrote
C20_Witness ==
    /\ status = "complete"
    /\ Cardinality(files) >= 2
    /\ summary = <<[startUrl |-> StartUrl, totalPages |-> Cardinality(files),
                     resumed |-> FALSE]>>
    /\ pages = <<>> /\ stack = <<>>

\* C21: a resumed session enters the traversal only from its loop, with one call of
\* crawl() at depth 1 for the link at the loop's position, and the loop takes the
\* remaining links one after the other; every frame of a resumed session has the
\* depth of its position on the stack
C21_ResumeAtDepthOne ==
    /\ [](kind = "resume" => \A k \in 1..Len(stack) : stack[k].depth = k)
    /\ [][(kind = "resume" /\ Running /\ stack = <<>> /\ stack' # <<>>) =>
             /\ ri \in 1..Len(remaining)
             /\ Len(stack') = 1
             /\ stack'[1].depth = 1
             /\ stack'[1].url = remaining[ri].url
             /\ stack'[1].hint = remaining[ri].linkType]_vars
    /\ [][(kind = "resume" /\ Running /\ status' = "running" /\ ri' # ri) =>
             (ri' = ri + 1 /\ stack = <<>>)]_vars

\* C21 witness: with maxDepth = 2, the resume loop has called crawl() for its second
\* remaining link, at depth 1
C21_Witness ==
    /\ kind = "resume" /\ Running /\ maxDepth = 2
    /\ ri = 2 /\ Len(stack) = 1
    /\ Top.depth = 1 /\ Top.pc = "extract" /\ Top.url = remaining[2].url

\* pages opened in this session for a link (all but the root's page of a fresh crawl)
ChildPagesOpened == Len(pages) - (IF kind = "fresh" /\ Len(pages) >= 1 THEN 1 ELSE 0)

\* a sleep was made and the tab it precedes is not yet opened
OpenPending ==
    IF InCrawl("newPage") \/ (Running /\ mainpc = "rnewPage") THEN 1 ELSE 0

\* C22: the number of sleeps of a session is the number of tabs opened for links, plus
\* one while the loop is between the sleep and the newPage() it precedes; a newPage()
\* that throws after the sleep is the only other case; nothing sleeps before the root
C22_ThrottleOncePerChild ==
    status \in {"running", "done", "failed"} =>
        /\ sleeps >= ChildPagesOpened + OpenPending
        /\ sleeps <= ChildPagesOpened + OpenPending + nfaults
        /\ (\A x \in faultLog : x.place # "newPage" \/ x.depth = 0) =>
               sleeps = ChildPagesOpened + OpenPending
        /\ (kind = "fresh" /\ Len(pages) <= 1 /\ OpenPending = 0 /\ faultLog = {}) =>
               sleeps = 0

\* C22 witness: a fresh crawl has visited the root and two links, and slept twice
C22_Witness ==
    /\ kind = "fresh" /\ status = "done"
    /\ Len(pages) = 3 /\ sleeps = 2
    /\ Cardinality(files) = 3

\* C23: a fresh crawl with maxDepth = 0 calls no classifier, opens no page but the
\* root's, never sleeps, visits only the root and writes at most the root's snapshot
\* (index 0, depth 0, content-assumed, no links); it has written it when it is done
C23_MaxDepthZeroRootOnly ==
    (kind = "fresh" /\ maxDepth = 0) =>
        /\ calls = <<>>
        /\ linksGiven = 0
        /\ sleeps = 0
        /\ Len(pages) <= 1
        /\ Len(stack) <= 1
        /\ visited \subseteq {StartUrl}
        /\ \A f \in files :
               /\ f.index = 0 /\ f.snap.url = StartUrl /\ f.snap.depth = 0
               /\ f.snap.pageType = "content-assumed" /\ f.snap.nextLinks = <<>>
        /\ status = "done" => Cardinality(files) = 1

\* C23 witness: the fresh crawl with maxDepth = 0 is done and has its one snapshot
C23_Witness ==
    /\ kind = "fresh" /\ maxDepth = 0 /\ status = "done"
    /\ Cardinality(files) = 1
    /\ pages # <<>> /\ pages[1].closes = 1

\* C24: in a session the classifier is called at most once for a URL, and only for a
\* page above maxDepth that was not reached through a content-hinted link; a call that
\* throws ends the visit, and the error leaves that crawl() for its caller; with
\* maxDepth = 1 the only call of a fresh crawl is the root's
C24_ClassifierOncePerUrl ==
    /\ [](/\ \A a, b \in 1..Len(calls) : calls[a].url = calls[b].url => a = b
          /\ \A a \in 1..Len(calls) :
                 calls[a].depth < maxDepth /\ calls[a].hint # "content"
          /\ (kind = "fresh" /\ maxDepth = 1) =>
                 (Len(calls) <= 1 /\ \A a \in 1..Len(calls) : calls[a].url = StartUrl))
    /\ [][(InCrawl("extract") /\ calls' # calls /\ exc' # <<>>) =>
             /\ calls' = Append(calls, [url |-> Top.url, depth |-> Top.depth,
                                        hint |-> Top.hint])
             /\ Len(stack') = Len(stack)
             /\ stack'[Len(stack')].pc = "finally"]_vars
    /\ [][(InCrawl("finally") /\ exc # <<>> /\ status' = "running") =>
             (exc' = exc /\ Len(stack') = Len(stack) - 1)]_vars

\* C24 witness: the classifier threw for a page at depth 1, the fresh crawl went on
\* to its end, and that URL has no snapshot and no second call
C24_Witness ==
    /\ kind = "fresh" /\ status = "done"
    /\ Len(calls) = 2
    /\ calls[2].depth = 1 /\ calls[2].url \notin SnapshotUrls
    /\ calls[2].url \in visited

\* C25: the summary is written only by the step that ends a session as done, after
\* the traversal returned with no error in flight, and a done session writes nothing
\* more; a session that fails or is lost leaves the summary as it was
C25_SummaryOnlyOnCompletion ==
    /\ [][summary' # summary =>
             /\ Running /\ status' = "done"
             /\ exc = <<>> /\ stack = <<>>
             /\ Len(summary') = 1
             /\ summary'[1].totalPages = pageIndex
             /\ summary'[1].resumed = (kind = "resume")]_vars
    /\ [][status = "done" => (resumes' = resumes + 1 /\ summary' = summary)]_vars
    /\ [][(Running /\ status' \in {"failed", "crashed"}) => summary' = summary]_vars
    /\ []((kind = "fresh" /\ status # "done") => summary = <<>>)

\* C25 witness: a fresh crawl was aborted by a fatal error after it had written
\* snapshots, and there is no summary
C25_Witness ==
    /\ kind = "fresh" /\ status = "failed"
    /\ exc # <<>> /\ isCDPConnectionError(exc[1])
    /\ Cardinality(files) >= 2
    /\ summary = <<>>

\* C26: snapshots are append-only: no step of a session, fresh or resumed, removes or
\* replaces a snapshot file that was written
C26_SnapshotsAppendOnly ==
    [][files \subseteq files']_vars

\* t occurs in m as a run of consecutive words
Occurs(t, m) ==
    \E i \in 1..(Len(m) - Len(t) + 1) : \A j \in 1..Len(t) : m[i + j - 1] = t[j]

\* the five strings of the table, as they are spelled
ExactTable ==
    {<<"CDP", "transport", "closed">>, <<"socket-close">>, <<"Session", "closed">>,
     <<"Target", "closed">>, <<"Connection", "closed">>}

\* the five phrases of the claim
ClaimTable ==
    {<<"transport", "closed">>, <<"session", "closed">>, <<"target", "closed">>,
     <<"connection", "closed">>, <<"socket", "closed">>}

LowerCase(w) ==
    CASE w = "CDP" -> "cdp"
      [] w = "Session" -> "session"
      [] w = "Target" -> "target"
      [] w = "Connection" -> "connection"
      [] OTHER -> w

LowerText(m) == [k \in 1..Len(m) |-> LowerCase(m[k])]

\* the error was classified
Classified == status = "idle" /\ exc # <<>> /\ faultLog # {}

\* C27, as amended: the verdict is fatal exactly when the value is an Error or a
\* string whose message text contains, as spelled and in the same case, one of
\* "CDP transport closed", "socket-close", "Session closed", "Target closed",
\* "Connection closed"; null, undefined and an empty message are recoverable
C27_FatalIffExactTable ==
    Classified =>
        \A x \in faultLog :
            x.fatal <=> /\ exc[1].tag \in {"Error", "string"}
                        /\ \E t \in ExactTable : Occurs(t, exc[1].message)

\* C27: the verdict is fatal exactly when the message text contains one of the phrases
\* transport closed, session closed, target closed, connection closed, socket closed
\* (in any case); every other value is recoverable
C27_FatalIffClaimTable ==
    Classified =>
        \A x \in faultLog :
            x.fatal <=> /\ exc[1].tag \in {"Error", "string"}
                        /\ \E t \in ClaimTable : Occurs(t, LowerText(exc[1].message))

\* C27 witness: an error whose message has "Target closed" after another word was
\* classified as fatal by the v3 variant
C27_Witness ==
    /\ Classified /\ variant = "v3"
    /\ exc[1].tag = "Error"
    /\ exc[1].message = <<"timeout", "Target", "closed">>
    /\ \A x \in faultLog : x.fatal

\* the pages a call in progress still holds: the page of each frame, the child's page
\* of a loop that has not closed it yet, and the resume loop's child page
HeldPages ==
    {stack[k].page : k \in 1..Len(stack)}
        \cup {stack[k].childPage : k \in {j \in 1..Len(stack) :
                                           stack[j].pc \in {"call", "catch", "closeChild"}}}
        \cup (IF mainpc \in {"rcall", "rcatch", "rclose"} THEN {rchild} ELSE {})

\* C28: only the innermost call works: every enclosing call waits at its await of the
\* child's crawl(), its page open and untouched, and the child works on the page that
\* call opened for it; while the session runs, a page that no call holds any more has
\* had its close attempted, so a close still pending after its timeout is all that can
\* overlap the next visit
C28_StrictlySequential ==
    /\ \A k \in 1..(Len(stack) - 1) :
           /\ stack[k].pc = "call"
           /\ stack[k].childPage = stack[k + 1].page
           /\ pages[stack[k].page].state = "open"
           /\ pages[stack[k].page].closes = 0
    /\ Cardinality({k \in 1..Len(stack) : stack[k].pc \in {"extract", "save"}}) <= 1
    /\ Running => \A id \in 1..Len(pages) : id \notin HeldPages => pages[id].closes = 1
    /\ \A id \in 1..Len(pages) : pages[id].state = "closing" => pages[id].closes = 1

\* C28 witness: the close of the first child's tab has outlived its timeout and is
\* pending while the second child is visited; the root waits, its page open
C28_Witness ==
    /\ InCrawl("extract") /\ Len(stack) = 2
    /\ Top.page = 3
    /\ pages[2].state = "closing"
    /\ pages[1].state = "open" /\ stack[1].pc = "call"

\* C29: a visit that fails with a non-fatal error before its snapshot is saved writes
\* no snapshot and leaves pageIndex unchanged, and the URL stays in the visited set
C29_FailedVisitLeavesIndex ==
    [][(/\ Running /\ stack # <<>> /\ Top.pc \in {"extract", "save"}
        /\ exc = <<>> /\ exc' # <<>> /\ ~isCDPConnectionError(exc'[1])) =>
          /\ files' = files
          /\ pageIndex' = pageIndex
          /\ visited' = visited /\ Top.url \in visited]_vars

\* C30: the visited set a resume starts with is exactly the set of URLs of the
\* persisted snapshots; the snapshots' URLs are always among the URLs the engine holds
\* as visited, so the rebuilt set is a subset of the set held when the session
\* stopped; a link of the root to a URL without snapshot is among the remaining links
C30_ResumeVisitedIsPersisted ==
    /\ [](status \in {"running", "done", "failed"} => SnapshotUrls \subseteq visited)
    /\ [][(resumes' = resumes + 1 /\ status' # "cannotResume") =>
             /\ visited' = {f.snap.url : f \in files}
             /\ status \in {"done", "failed"} => visited' \subseteq visited
             /\ \A p \in {f \in files : f.index = 0} :
                    \A k \in 1..Len(p.snap.nextLinks) :
                        p.snap.nextLinks[k].url \notin visited' =>
                            \E m \in 1..Len(remaining') :
                                remaining'[m] = p.snap.nextLinks[k]]_vars

\* C30 witness: the save of a link's snapshot had failed (index 1 is missing), its URL
\* was in the visited set of that session; the resume does not hold it as visited and
\* has it as its remaining link
C30_Witness ==
    /\ AtResumeStart /\ status = "running"
    /\ FileIndices = {0, 2}
    /\ visited = SnapshotUrls
    /\ Len(remaining) = 1 /\ remaining[1].url \notin visited

\* the positions of the links that a crawl of depth 1 visits: the first link to each
\* URL other than the root's
FirstLinks(links, root) ==
    {k \in 1..Len(links) :
        /\ links[k].url # root
        /\ \A j \in 1..(k - 1) : links[j].url # links[k].url}

\* index, URL and depth of the snapshots of an uninterrupted crawl of depth 1 from a
\* root with these links
DepthOneCrawl(links, root) ==
    {<<0, root, 0>>}
        \cup {<<Cardinality({j \in FirstLinks(links, root) : j <= k}), links[k].url, 1>> :
                  k \in FirstLinks(links, root)}

\* C31: with maxDepth = 1 and no error but fatal ones, a session that is done, be it
\* the uninterrupted fresh crawl or the resume of an aborted one, leaves the same
\* snapshots: the root at index 0 and the first link to each other URL, at depth 1,
\* indexed in the order of the root's links
C31_ResumedEqualsUninterrupted ==
    (maxDepth = 1 /\ status = "done") =>
        \E p \in files :
            /\ p.index = 0
            /\ {<<f.index, f.snap.url, f.snap.depth>> : f \in files}
                   = DepthOneCrawl(p.snap.nextLinks, StartUrl)

\* C31 witness: the fresh crawl wrote the root and its first link and was aborted at
\* the second; the resumed session wrote the second and is done
C31_Witness ==
    /\ maxDepth = 1 /\ kind = "resume" /\ status = "done"
    /\ nfaults = 1 /\ faultLog = {}
    /\ \E f, g, h \in files :
           /\ f.index = 0 /\ f.sess = 0
           /\ g.index = 1 /\ g.sess = 0
           /\ h.index = 2 /\ h.sess = 1 /\ h.snap.depth = 1

\* C32: when the crawl() of a child has thrown a fatal error, the loop's catch rethrows
\* it and touches no page, the loop's finally then makes the one close attempt on
\* that child's page, and whatever that attempt does (resolve, reject, time out) the
\* error in flight after it is the same error; a call that is left with an error has
\* had the close of its last child's page attempted
C32_FatalSurvivesRelease ==
    /\ [][(InCrawl("catch") /\ isCDPConnectionError(exc[1]) /\ status' = "running") =>
             /\ exc' = exc /\ pages' = pages
             /\ Len(stack') = Len(stack)
             /\ stack'[Len(stack')].pc = "closeChild"]_vars
    /\ [][(InCrawl("closeChild") /\ exc # <<>> /\ status' = "running") =>
             /\ pages'[Top.childPage].closes = pages[Top.childPage].closes + 1
             /\ \A k \in 1..Len(pages) : k # Top.childPage => pages'[k] = pages[k]
             /\ exc' = exc
             /\ Len(stack') = Len(stack)
             /\ stack'[Len(stack')].pc = "finally"]_vars
    /\ []((InCrawl("finally") /\ Top.childPage # NoPage) =>
             pages[Top.childPage].closes = 1)

\* C32 witness: a child's visit threw a fatal error, the close of the child's page
\* failed, and the parent is about to leave with the fatal error
C32_Witness ==
    /\ InCrawl("finally") /\ Top.childPage # NoPage
    /\ exc # <<>> /\ isCDPConnectionError(exc[1])
    /\ \E x \in faultLog : x.place = "visit" /\ x.depth = Top.depth + 1 /\ x.fatal
    /\ pages[Top.childPage].closes = 1
    /\ pages[Top.childPage].state # "closed"

\* the pages the engine created on which no close was attempted yet
OpenPages == {k \in 1..Len(pages) : pages[k].closes = 0}

\* the depth of the page being processed: that of the innermost call, or, once that
\* call has returned to the loop, that of the child whose page the loop still has to
\* release
ProcessingDepth ==
    IF Top.pc \in {"catch", "closeChild"} THEN Top.depth + 1 ELSE Top.depth

C34_NewPageErrorLeavesCrawl ==
    /\ [][(InCrawl("newPage") /\ exc' # <<>> /\ status' = "running") =>
             /\ Len(stack') = Len(stack)
             /\ stack'[Len(stack')].pc = "finally"
             /\ stack'[Len(stack')].i = Top.i
             /\ pages' = pages /\ visited' = visited /\ files' = files]_vars
    /\ [][(InCrawl("finally") /\ exc # <<>> /\ status' = "running") =>
             /\ exc' = exc
             /\ Len(stack') = Len(stack) - 1
             /\ visited' = visited /\ files' = files]_vars
    /\ []((kind = "fresh" /\ SessionOver
             /\ faultLog = {[place |-> "newPage", depth |-> 1, fatal |-> FALSE]}) =>
            (status = "failed" /\ exc # <<>> /\ ~isCDPConnectionError(exc[1])))

\* C34 witness: newPage() threw a non-fatal error for the second link of the root;
\* the fresh crawl ended rejected with it and that link's URL was never visited
C34_Witness ==
    /\ kind = "fresh" /\ status = "failed"
    /\ faultLog = {[place |-> "newPage", depth |-> 1, fatal |-> FALSE]}
    /\ exc # <<>> /\ ~isCDPConnectionError(exc[1])
    /\ \E f \in files :
           /\ f.index = 0 /\ Len(f.snap.nextLinks) = 2
           /\ f.snap.nextLinks[1].url \in SnapshotUrls
           /\ f.snap.nextLinks[2].url \notin visited

LinkTargets(us) ==
    UNION {{f.snap.nextLinks[k].url : k \in 1..Len(f.snap.nextLinks)} :
               f \in {g \in files : g.snap.url \in us}}

RECURSIVE ReachableWithin(_)
\* the URLs at most n links away from the root
ReachableWithin(n) ==
    IF n = 0 THEN {StartUrl}
    ELSE ReachableWithin(n - 1) \cup LinkTargets(ReachableWithin(n - 1))

\* C36: a session under way comes to its end when every awaited call returns or
\* throws, whatever the links (cycles and self-links included) and maxDepth; in a
\* fresh crawl every snapshot is of a URL at most maxDepth links away from the root,
\* and there are no more snapshots than such URLs
C36_Terminates ==
    /\ [](kind = "fresh" =>
             /\ SnapshotUrls \subseteq ReachableWithin(maxDepth)
             /\ Cardinality(files) <= Cardinality(ReachableWithin(maxDepth)))
    /\ (Running ~> ~Running)

\* C36 witness: a fresh crawl is done whose root links to a page that links back to
\* the root; the two snapshots are all there is
C36_Witness ==
    /\ kind = "fresh" /\ status = "done" /\ maxDepth = 2
    /\ Cardinality(files) = 2
    /\ \E f, g \in files :
           /\ f.index = 0 /\ g.snap.depth = 1
           /\ f.snap.nextLinks = <<[url |-> g.snap.url, linkType |-> "entry"]>>
           /\ g.snap.nextLinks = <<[url |-> f.snap.url, linkType |-> "entry"]>>

\* C37: the startUrl in the summary of a resumed session is the URL of the root
\* snapshot (index 0), whatever the directory holds and lists first
C37_StartUrlIsRoot ==
    (summary # <<>> /\ summary[1].resumed) =>
        \A p \in files : p.index = 0 => summary[1].startUrl = p.snap.url

\* C38: whenever a summary is written, its totalPages is the number of snapshots in
\* the directory, those of earlier sessions included
C38_TotalPagesIsFileCount ==
    [][summary' # summary => summary'[1].totalPages = Cardinality(files')]_vars

\* C39: a resume of a directory with a snapshot file that cannot be parsed raises no
\* error and builds no resume state: the driver reports that it cannot resume, with
\* no visited URL, no remaining link, no page, and the directory left as it was
C39_UnreadableMeansNull ==
    [][(resumes' = resumes + 1 /\ torn # {}) =>
          /\ status' = "cannotResume"
          /\ exc' = <<>>
          /\ visited' = {} /\ listed' = {} /\ remaining' = <<>>
          /\ pages' = <<>> /\ stack' = <<>>
          /\ files' = files /\ torn' = torn /\ summary' = summary]_vars

\* C39 witness: the process died while it wrote the snapshot of a link; the root's
\* snapshot is intact, and the resume reports that it cannot resume
C39_Witness ==
    /\ status = "cannotResume"
    /\ \E t \in torn : t.index >= 1
    /\ \E p \in files : p.index = 0 /\ p.snap.nextLinks # <<>>

====
